---- MODULE Spec2Model ----
(***************************************************************************)
(* EquityCurve (src/src/components/EquityCurve/index.js): the timestamp    *)
(* and P&L helpers, the daily aggregation, the equity curve, and the       *)
(* fetch cycles of the component's effect with their cancellation flag.    *)
(*                                                                         *)
(* JavaScript values are records tagged with their typeof.  A number is    *)
(* kept as k * 1000 + u (0 <= u < 1000), so that epoch milliseconds and    *)
(* the 2_000_000_000_000 threshold of toSec stay inside TLC's integers.    *)
(* A string is the sequence of its characters.                             *)
(***************************************************************************)
EXTENDS Integers, Sequences, FiniteSets, TLC

VARIABLES
    props,      \* the props of the last render: symbols, startingBalance
    mounted,    \* the component is mounted
    cycles,     \* one record per run of the effect (its closure and promises)
    points,     \* useState([])   : the committed curve
    loading,    \* useState(false)
    err,        \* useState("")
    tsProbe,    \* a call of toSec: the instant, the encoding, the result
    plProbe     \* a call of getPL: the trade, whether it ran, the result

vars == <<props, mounted, cycles, points, loading, err, tsProbe, plProbe>>

uiVars == <<props, mounted, cycles, points, loading, err>>

-----------------------------------------------------------------------------
(* JavaScript values *)

Undefined == [t |-> "undefined"]

Null == [t |-> "object"]

Num(k, u) == [t |-> "number", cls |-> "finite", k |-> k, u |-> u]

NumOf(i) == Num(i \div 1000, i % 1000)

Infinity == [t |-> "number", cls |-> "inf", k |-> 0, u |-> 0]

NaN == [t |-> "number", cls |-> "nan", k |-> 0, u |-> 0]

Str(s) == [t |-> "string", s |-> s]

Bool(b) == [t |-> "boolean", b |-> b]

IsNullish(v) == v = Null \/ v = Undefined

NumberIsFinite(v) == v.t = "number" /\ v.cls = "finite"

NumAdd(a, b) ==
    LET s == a.u + b.u
    IN  Num(a.k + b.k + (s \div 1000), s % 1000)

NumSub(a, b) ==
    LET s == a.u - b.u
    IN  Num(a.k - b.k + (s \div 1000), s % 1000)

\* a > b of two numbers (NaN compares false, Infinity is above every finite)
NumGreater(a, b) ==
    CASE a.cls = "nan" \/ b.cls = "nan" -> FALSE
      [] a.cls = "inf" -> b.cls = "finite"
      [] b.cls = "inf" -> FALSE
      [] OTHER -> a.k > b.k \/ (a.k = b.k /\ a.u > b.u)

\* Math.floor(v / 1000)
FloorDiv1000(v) == IF v.cls = "finite" THEN NumOf(v.k) ELSE v

-----------------------------------------------------------------------------
(* Strings *)

DigitChars == <<"0", "1", "2", "3", "4", "5", "6", "7", "8", "9">>

\* the characters the model's strings use, in UTF-16 code unit order
Alphabet == <<"+", "-", "0", "1", "2", "3", "4", "5", "6", "7", "8", "9",
              ":", "T", "Z", "a", "b", "c">>

CodeUnit(c) == CHOOSE i \in 1..Len(Alphabet) : Alphabet[i] = c

IsDigit(c) == \E i \in 1..10 : DigitChars[i] = c

DigitVal(c) == (CHOOSE i \in 1..10 : DigitChars[i] = c) - 1

AllDigits(s) == \A i \in 1..Len(s) : IsDigit(s[i])

RECURSIVE DecValue(_)
DecValue(s) ==
    IF Len(s) = 0 THEN 0
    ELSE DecValue(SubSeq(s, 1, Len(s) - 1)) * 10 + DigitVal(s[Len(s)])

\* the number a non-empty string of digits denotes
DigitsToNum(s) ==
    IF Len(s) <= 3 THEN Num(0, DecValue(s))
    ELSE Num(DecValue(SubSeq(s, 1, Len(s) - 3)),
             DecValue(SubSeq(s, Len(s) - 2, Len(s))))

RECURSIVE Pow10(_)
Pow10(n) == IF n = 0 THEN 1 ELSE 10 * Pow10(n - 1)

\* n >= 0 in decimal, zero-padded to w digits
Pad(n, w) == [i \in 1..w |-> DigitChars[((n \div Pow10(w - i)) % 10) + 1]]

\* a < b in the order of Array.prototype.sort() without a comparator
StrLess(a, b) ==
    \E i \in 1..Len(b) :
        /\ \A j \in 1..(i - 1) : j <= Len(a) /\ a[j] = b[j]
        /\ (i > Len(a) \/ CodeUnit(a[i]) < CodeUnit(b[i]))

\* String(v)
StringOf(v) ==
    CASE v.t = "string" -> v.s
      [] v.t = "boolean" -> IF v.b THEN <<"t", "r", "u", "e">>
                            ELSE <<"f", "a", "l", "s", "e">>
      [] OTHER -> <<"o", "b", "j">>

\* Number(v) of a value that is neither null nor undefined nor a number
ToNumber(v) ==
    CASE v.t = "boolean" -> IF v.b THEN NumOf(1) ELSE NumOf(0)
      [] v.t = "string" ->
            LET s == v.s
            IN  IF Len(s) = 0 THEN NumOf(0)
                ELSE IF AllDigits(s) THEN DigitsToNum(s)
                ELSE IF Len(s) > 1 /\ s[1] = "-" /\ AllDigits(Tail(s))
                     THEN NumSub(NumOf(0), DigitsToNum(Tail(s)))
                ELSE NaN
      [] OTHER -> NaN

-----------------------------------------------------------------------------
(* Dates: the proleptic Gregorian calendar of Date *)

DaysFromCivil(y, m, d) ==
    LET yy  == IF m <= 2 THEN y - 1 ELSE y
        era == yy \div 400
        yoe == yy - era * 400
        mp  == IF m > 2 THEN m - 3 ELSE m + 9
        doy == ((153 * mp + 2) \div 5) + d - 1
        doe == yoe * 365 + (yoe \div 4) - (yoe \div 100) + doy
    IN  era * 146097 + doe - 719468

CivilFromDays(z0) ==
    LET z   == z0 + 719468
        era == z \div 146097
        doe == z - era * 146097
        yoe == (doe - (doe \div 1460) + (doe \div 36524) - (doe \div 146096)) \div 365
        doy == doe - (365 * yoe + (yoe \div 4) - (yoe \div 100))
        mp  == (5 * doy + 2) \div 153
        d   == doy - ((153 * mp + 2) \div 5) + 1
        m   == IF mp < 10 THEN mp + 3 ELSE mp - 9
        y   == yoe + era * 400 + (IF m <= 2 THEN 1 ELSE 0)
    IN  [y |-> y, m |-> m, d |-> d]

DaysInMonth(y, m) ==
    IF m = 2
    THEN IF (y % 4 = 0 /\ y % 100 # 0) \/ y % 400 = 0 THEN 29 ELSE 28
    ELSE IF m \in {4, 6, 9, 11} THEN 30 ELSE 31

IsDateText(s) ==
    /\ Len(s) >= 10
    /\ AllDigits(SubSeq(s, 1, 4)) /\ s[5] = "-"
    /\ AllDigits(SubSeq(s, 6, 7)) /\ s[8] = "-"
    /\ AllDigits(SubSeq(s, 9, 10))
    /\ LET y == DecValue(SubSeq(s, 1, 4))
           m == DecValue(SubSeq(s, 6, 7))
           d == DecValue(SubSeq(s, 9, 10))
       IN  m \in 1..12 /\ d >= 1 /\ d <= DaysInMonth(y, m)

IsTimeText(s) ==
    /\ Len(s) = 20
    /\ s[11] = "T" /\ AllDigits(SubSeq(s, 12, 13)) /\ s[14] = ":"
    /\ AllDigits(SubSeq(s, 15, 16)) /\ s[17] = ":"
    /\ AllDigits(SubSeq(s, 18, 19)) /\ s[20] = "Z"
    /\ DecValue(SubSeq(s, 12, 13)) < 24
    /\ DecValue(SubSeq(s, 15, 16)) < 60
    /\ DecValue(SubSeq(s, 18, 19)) < 60

\* new Date(s).getTime() for the ISO forms YYYY-MM-DD and
\* YYYY-MM-DDTHH:MM:SSZ; every other text of the model is an invalid date
DateParse(s) ==
    IF IsDateText(s) /\ (Len(s) = 10 \/ IsTimeText(s))
    THEN LET days == DaysFromCivil(DecValue(SubSeq(s, 1, 4)),
                                   DecValue(SubSeq(s, 6, 7)),
                                   DecValue(SubSeq(s, 9, 10)))
             secs == IF Len(s) = 10 THEN 0
                     ELSE DecValue(SubSeq(s, 12, 13)) * 3600
                          + DecValue(SubSeq(s, 15, 16)) * 60
                          + DecValue(SubSeq(s, 18, 19))
         IN  Num(days * 86400 + secs, 0)
    ELSE NaN

\* the UTC day number (days since the epoch) of a finite number of seconds
UtcDay(sec) ==
    (sec.k \div 86400) * 1000 + (((sec.k % 86400) * 1000 + sec.u) \div 86400)

\* the date part of Date.prototype.toISOString: four digits for the years
\* 0..9999, a sign and six digits for every other year
IsoDate(c) ==
    (IF c.y >= 0 /\ c.y <= 9999 THEN Pad(c.y, 4)
     ELSE IF c.y > 9999 THEN <<"+">> \o Pad(c.y, 6)
     ELSE <<"-">> \o Pad(0 - c.y, 6))
    \o <<"-">> \o Pad(c.m, 2) \o <<"-">> \o Pad(c.d, 2)

Slice10(s) == SubSeq(s, 1, IF Len(s) < 10 THEN Len(s) ELSE 10)

\* new Date(ctSec * 1000).toISOString().slice(0, 10)
DayKey(ctSec) == Slice10(IsoDate(CivilFromDays(UtcDay(ctSec))))

-----------------------------------------------------------------------------
(* toSec, getCloseSec, getPL *)

MS_THRESHOLD == Num(2000000000, 0)   \* 2_000_000_000_000

IsDigitString(s, n) == Len(s) = n /\ AllDigits(s)

toSec(v) ==
    IF IsNullish(v) THEN Undefined
    ELSE IF v.t = "number"
         THEN IF NumGreater(v, MS_THRESHOLD) THEN FloorDiv1000(v) ELSE v
    ELSE LET s == StringOf(v)
         IN  IF IsDigitString(s, 13) THEN FloorDiv1000(DigitsToNum(s))
             ELSE IF IsDigitString(s, 10) THEN DigitsToNum(s)
             ELSE LET t == DateParse(s)
                  IN  IF NumberIsFinite(t) THEN FloorDiv1000(t) ELSE Undefined

\* a ?? b
Coalesce(a, b) == IF IsNullish(a) THEN b ELSE a

getCloseSec(t) ==
    Coalesce(toSec(t.close_timestamp),
    Coalesce(toSec(t.exit),
    Coalesce(toSec(t.close_time),
    Coalesce(toSec(t.timestamp),
             toSec(t.entry_timestamp)))))

\* one field of getPL: it returns the field when it is a number, or its
\* coercion when the field is present and coerces to a finite number
PLReturns(v) ==
    v.t = "number" \/ (~IsNullish(v) /\ NumberIsFinite(ToNumber(v)))

PLValue(v) == IF v.t = "number" THEN v ELSE ToNumber(v)

PLFields == <<"real_profit_loss", "real_net_profit_loss", "real_net_pnl", "real_pnl">>

getPL(t) ==
    IF PLReturns(t.real_profit_loss) THEN PLValue(t.real_profit_loss)
    ELSE IF PLReturns(t.real_net_profit_loss) THEN PLValue(t.real_net_profit_loss)
    ELSE IF PLReturns(t.real_net_pnl) THEN PLValue(t.real_net_pnl)
    ELSE IF PLReturns(t.real_pnl) THEN PLValue(t.real_pnl)
    ELSE Undefined

-----------------------------------------------------------------------------
(* Trades and responses of /api/coin-stats/raw *)

NoFields ==
    [close_timestamp |-> Undefined, exit |-> Undefined, close_time |-> Undefined,
     timestamp |-> Undefined, entry_timestamp |-> Undefined,
     real_profit_loss |-> Undefined, real_net_profit_loss |-> Undefined,
     real_net_pnl |-> Undefined, real_pnl |-> Undefined]

\* HH:MM:SS of a second of the day
ClockText(s) ==
    Pad(s \div 3600, 2) \o <<":">> \o Pad((s % 3600) \div 60, 2) \o <<":">>
    \o Pad(s % 60, 2)

\* the encodings of the instant inst (epoch seconds) that a server sends
MsNumberOf(inst) == Num(inst, 0)

SecNumberOf(inst) == NumOf(inst)

MsStringOf(inst) == Str(Pad(inst, 10) \o <<"0", "0", "0">>)

SecStringOf(inst) == Str(Pad(inst, 10))

IsoStringOf(inst) ==
    Str(IsoDate(CivilFromDays(inst \div 86400)) \o <<"T">>
        \o ClockText(inst % 86400) \o <<"Z">>)

-----------------------------------------------------------------------------
(* toSec on every encoding of an instant *)

MaxInstants == 24

Instants == {1700000000 + i * 17000017 : i \in 0..(MaxInstants - 1)}

InitToSec ==
    /\ tsProbe \in [inst : Instants, enc : {"none"}, out : {Undefined}]
    /\ plProbe = [trade |-> NoFields, done |-> FALSE, out |-> Undefined]
    /\ props = [symbols |-> <<>>, startingBalance |-> NumOf(0)]
    /\ mounted = FALSE /\ cycles = <<>>
    /\ points = <<>> /\ loading = FALSE /\ err = ""

Normalize(enc, v) ==
    /\ tsProbe.enc = "none"
    /\ tsProbe' = [tsProbe EXCEPT !.enc = enc, !.out = toSec(v)]
    /\ UNCHANGED <<uiVars, plProbe>>

NormalizeMsNumber == Normalize("msNumber", MsNumberOf(tsProbe.inst))

NormalizeSecNumber == Normalize("secNumber", SecNumberOf(tsProbe.inst))

NormalizeMsString == Normalize("msString", MsStringOf(tsProbe.inst))

NormalizeSecString == Normalize("secString", SecStringOf(tsProbe.inst))

NormalizeIsoString == Normalize("isoString", IsoStringOf(tsProbe.inst))

NextToSec ==
    \/ NormalizeMsNumber
    \/ NormalizeSecNumber
    \/ NormalizeMsString
    \/ NormalizeSecString
    \/ NormalizeIsoString

SpecToSec == InitToSec /\ [][NextToSec]_vars

-----------------------------------------------------------------------------
(* getPL on every combination of its four fields *)

PLFieldValues ==
    {Undefined, Null, NumOf(5), NumOf(0 - 3), Infinity,
     Str(<<"1", "2">>), Str(<<"a", "b", "c">>), Str(<<>>)}

PLTrades ==
    {[NoFields EXCEPT !.real_profit_loss = a, !.real_net_profit_loss = b,
                      !.real_net_pnl = c, !.real_pnl = d] :
        a \in PLFieldValues, b \in PLFieldValues,
        c \in PLFieldValues, d \in PLFieldValues}

InitGetPL ==
    /\ plProbe \in [trade : PLTrades, done : {FALSE}, out : {Undefined}]
    /\ tsProbe = [inst |-> 0, enc |-> "none", out |-> Undefined]
    /\ props = [symbols |-> <<>>, startingBalance |-> NumOf(0)]
    /\ mounted = FALSE /\ cycles = <<>>
    /\ points = <<>> /\ loading = FALSE /\ err = ""

ResolvePL ==
    /\ ~plProbe.done
    /\ plProbe' = [plProbe EXCEPT !.done = TRUE, !.out = getPL(plProbe.trade)]
    /\ UNCHANGED <<uiVars, tsProbe>>

NextGetPL == ResolvePL

SpecGetPL == InitGetPL /\ [][NextGetPL]_vars

\* a field qualifies when it is present, coerces to a number, and that
\* number is finite
Coerced(v) == IF v.t = "number" THEN v ELSE ToNumber(v)

Qualifies(v) == ~IsNullish(v) /\ NumberIsFinite(Coerced(v))

FirstQualifying(t) ==
    LET hits == {j \in 1..Len(PLFields) : Qualifies(t[PLFields[j]])}
    IN  IF hits = {} THEN 0 ELSE CHOOSE j \in hits : \A h \in hits : j <= h

-----------------------------------------------------------------------------
(* The responses the fetch cycles receive *)

\* 2023-11-14T22:13:20Z as epoch seconds, real_profit_loss a number
tradeSec ==
    [NoFields EXCEPT !.close_timestamp = SecNumberOf(1700000000),
                     !.real_profit_loss = NumOf(50)]

\* one day later, as a 10-digit string in exit; a loss given as a string
tradeStr ==
    [NoFields EXCEPT !.exit = SecStringOf(1700086400),
                     !.real_profit_loss = Null,
                     !.real_net_profit_loss = Str(<<"-", "2", "0">>)]

\* the instant of tradeSec as epoch milliseconds
tradeMs ==
    [NoFields EXCEPT !.close_timestamp = MsNumberOf(1700000000),
                     !.real_pnl = NumOf(7)]

\* 86.4 seconds after tradeMs, as epoch milliseconds
tradeMsLater ==
    [NoFields EXCEPT !.timestamp = Num(1700000086, 400),
                     !.real_net_pnl = NumOf(3)]

\* a close time and no P&L
tradeNoPL == [NoFields EXCEPT !.close_time = IsoStringOf(1700000000)]

TradeLists ==
    {<<tradeSec, tradeStr, NoFields>>,
     <<tradeNoPL, tradeStr, tradeSec>>,
     <<tradeMs, tradeMsLater>>}

Array(items) == [t |-> "array", items |-> items]

JsonObject(trades) == [t |-> "object", trades |-> trades]

ParsedBody(json) == [parse |-> "ok", json |-> json]

InvalidBody == [parse |-> "error", json |-> Undefined]

OkResponse(body) ==
    [kind |-> "response", ok |-> TRUE, status |-> "200 OK", body |-> body]

FetchRejected == [kind |-> "rejected", message |-> "Failed to fetch"]

ServerError ==
    [kind |-> "response", ok |-> FALSE, status |-> "500 Internal Server Error",
     body |-> InvalidBody]

TradesResponse(l) == OkResponse(ParsedBody(JsonObject(Array(l))))

\* the responses of the runs about failures and malformed bodies
ErrorResponses ==
    {FetchRejected, ServerError,
     OkResponse(InvalidBody),
     OkResponse(ParsedBody(Null)),
     OkResponse(ParsedBody(JsonObject(Undefined))),
     OkResponse(ParsedBody(JsonObject(Str(<<"a">>)))),
     TradesResponse(<<tradeSec, tradeStr, NoFields>>),
     TradesResponse(<<tradeSec, Null>>)}

\* the responses of the runs about the status under fair scheduling
StatusResponses ==
    {FetchRejected, ServerError,
     OkResponse(InvalidBody),
     TradesResponse(<<tradeSec, tradeStr, NoFields>>)}

\* the responses of the runs about the daily sums and the curve
TradeResponses ==
    {ServerError} \cup {TradesResponse(l) : l \in TradeLists}

NoResponse == [kind |-> "none"]

-----------------------------------------------------------------------------
(* fetchAll: the per-symbol task, the daily sums, the curve *)

EmptyObject == [d \in {} |-> NumOf(0)]

\* dailyPL[day] = (dailyPL[day] || 0) + pl
AddToDay(daily, day, pl) ==
    IF day \in DOMAIN daily
    THEN [daily EXCEPT ![day] = NumAdd(@, pl)]
    ELSE [d \in DOMAIN daily \cup {day} |->
            IF d = day THEN pl ELSE daily[d]]

\* the loop over the trades of one response; reading a field of a null
\* trade throws and leaves the sums added so far
RECURSIVE ProcessTrades(_, _)
ProcessTrades(daily, trades) ==
    IF trades = <<>> THEN [daily |-> daily, threw |-> FALSE]
    ELSE LET t == Head(trades)
         IN  IF IsNullish(t) THEN [daily |-> daily, threw |-> TRUE]
             ELSE LET ctSec == getCloseSec(t)
                      pl    == getPL(t)
                  IN  IF ~NumberIsFinite(ctSec) THEN ProcessTrades(daily, Tail(trades))
                      ELSE IF ~NumberIsFinite(pl) THEN ProcessTrades(daily, Tail(trades))
                      ELSE ProcessTrades(AddToDay(daily, DayKey(ctSec), pl),
                                         Tail(trades))

\* RunTask with the loop run over json.trades itself: a missing or
\* non-array trades field throws
RunTaskRequiresArray(daily, r) ==
    IF r.kind = "rejected"
    THEN [rejected |-> TRUE, message |-> r.message, daily |-> daily]
    ELSE IF ~r.ok
    THEN [rejected |-> TRUE, message |-> r.status, daily |-> daily]
    ELSE IF r.body.parse = "error"
    THEN [rejected |-> TRUE, message |-> "Unexpected token in JSON", daily |-> daily]
    ELSE IF r.body.json = Null
    THEN [rejected |-> TRUE, message |-> "Cannot read properties of null",
          daily |-> daily]
    ELSE IF r.body.json.trades.t # "array"
    THEN [rejected |-> TRUE, message |-> "trades is not iterable", daily |-> daily]
    ELSE LET done == ProcessTrades(daily, r.body.json.trades.items)
         IN  [rejected |-> done.threw,
              message |-> IF done.threw THEN "Cannot read properties of null" ELSE "",
              daily |-> done.daily]

\* one symbol's task run on the response r: whether it rejects, with what
\* message, and the daily sums it leaves
RunTask(daily, r) ==
    IF r.kind = "rejected"
    THEN [rejected |-> TRUE, message |-> r.message, daily |-> daily]
    ELSE IF ~r.ok
    THEN [rejected |-> TRUE, message |-> r.status, daily |-> daily]
    ELSE IF r.body.parse = "error"
    THEN [rejected |-> TRUE, message |-> "Unexpected token in JSON", daily |-> daily]
    ELSE IF r.body.json = Null
    THEN [rejected |-> TRUE, message |-> "Cannot read properties of null",
          daily |-> daily]
    ELSE LET json   == r.body.json
             trades == IF json.trades.t = "array" THEN json.trades.items ELSE <<>>
             done   == ProcessTrades(daily, trades)
         IN  [rejected |-> done.threw,
              message |-> IF done.threw THEN "Cannot read properties of null" ELSE "",
              daily |-> done.daily]

\* Object.keys(dailyPL).sort()
RECURSIVE SortedKeys(_)
SortedKeys(S) ==
    IF S = {} THEN <<>>
    ELSE LET first == CHOOSE k \in S : \A o \in S \ {k} : StrLess(k, o)
         IN  <<first>> \o SortedKeys(S \ {first})

RECURSIVE BuildPoints(_, _, _)
BuildPoints(daily, days, equity) ==
    IF days = <<>> THEN <<>>
    ELSE LET eq == NumAdd(equity, daily[Head(days)])
         IN  <<[date |-> Head(days), equity |-> eq]>>
             \o BuildPoints(daily, Tail(days), eq)

Curve(daily, startingBalance) ==
    BuildPoints(daily, SortedKeys(DOMAIN daily), startingBalance)

\* e.message || "Failed to load"
ErrText(message) == IF message = "" THEN "Failed to load" ELSE message

-----------------------------------------------------------------------------
(* The component: props, the effect and its cycles *)

MaxCycles == 2

\* the first symbols of DEFAULT_SYMBOLS
DefaultSymbols == <<"ADAUSDT", "BTCUSDT">>

SymbolLists == {DefaultSymbols, <<"ADAUSDT">>}

Balances == {NumOf(1000), NumOf(2000)}

PropsSet == [symbols : SymbolLists, startingBalance : Balances]

NewCycle(p) ==
    [symbols |-> p.symbols,
     startingBalance |-> p.startingBalance,
     cancelled |-> FALSE,
     dailyPL |-> EmptyObject,
     task |-> [i \in 1..Len(p.symbols) |-> "pending"],
     res |-> [i \in 1..Len(p.symbols) |-> NoResponse],
     join |-> "pending",
     reason |-> "",
     pts |-> <<>>,
     pc |-> "await"]

\* the cleanup of the running effect: cancelled = true
Cleanup(cs) ==
    IF Len(cs) = 0 THEN cs ELSE [cs EXCEPT ![Len(cs)].cancelled = TRUE]

\* the effect body: fetchAll() up to its await
RunEffect(p) ==
    /\ loading' = TRUE
    /\ err' = ""
    /\ cycles' = Append(Cleanup(cycles), NewCycle(p))

Init ==
    /\ props = [symbols |-> DefaultSymbols, startingBalance |-> NumOf(1000)]
    /\ mounted = FALSE
    /\ cycles = <<>>
    /\ points = <<>>
    /\ loading = FALSE
    /\ err = ""
    /\ tsProbe = [inst |-> 0, enc |-> "none", out |-> Undefined]
    /\ plProbe = [trade |-> NoFields, done |-> FALSE, out |-> Undefined]

Mount ==
    /\ ~mounted /\ cycles = <<>>
    /\ mounted' = TRUE
    /\ RunEffect(props)
    /\ UNCHANGED <<props, points, tsProbe, plProbe>>

\* a render with props whose dependencies differ
ParamChange(p) ==
    /\ mounted
    /\ Len(cycles) < MaxCycles
    /\ p.symbols # props.symbols \/ p.startingBalance # props.startingBalance
    /\ props' = p
    /\ RunEffect(p)
    /\ UNCHANGED <<mounted, points, tsProbe, plProbe>>

Unmount ==
    /\ mounted
    /\ mounted' = FALSE
    /\ cycles' = Cleanup(cycles)
    /\ UNCHANGED <<props, points, loading, err, tsProbe, plProbe>>

\* JoinAfter with Promise.allSettled in place of Promise.all
JoinAfterAllSettled(cy, task, rejected) ==
    IF cy.join # "pending" THEN cy.join
    ELSE IF \A j \in DOMAIN task : task[j] # "pending" THEN "fulfilled"
    ELSE "pending"

\* Promise.all after task i settled
JoinAfter(cy, task, rejected) ==
    IF cy.join # "pending" THEN cy.join
    ELSE IF rejected THEN "rejected"
    ELSE IF \A j \in DOMAIN task : task[j] = "fulfilled" THEN "fulfilled"
    ELSE "pending"

\* the request of symbol i of cycle c settles with r and its task runs to
\* its end
Settle(c, i, r) ==
    /\ c \in DOMAIN cycles
    /\ i \in DOMAIN cycles[c].task
    /\ cycles[c].task[i] = "pending"
    /\ LET cy   == cycles[c]
           ran  == RunTask(cy.dailyPL, r)
           task == [cy.task EXCEPT ![i] = IF ran.rejected THEN "rejected"
                                          ELSE "fulfilled"]
           join == JoinAfter(cy, task, ran.rejected)
       IN  cycles' = [cycles EXCEPT ![c] =
                [cy EXCEPT !.task = task,
                           !.res[i] = r,
                           !.dailyPL = ran.daily,
                           !.join = join,
                           !.reason = IF cy.join = "pending" /\ ran.rejected
                                      THEN ran.message ELSE cy.reason]]
    /\ UNCHANGED <<props, mounted, points, loading, err, tsProbe, plProbe>>

\* ResumeFulfilled without the cancelled checks
ResumeFulfilledUnguarded(c) ==
    LET cy  == cycles[c]
        pts == Curve(cy.dailyPL, cy.startingBalance)
    IN  /\ cycles' = [cycles EXCEPT ![c].pts = pts,
                                    ![c].pc = IF cy.cancelled THEN "discarded"
                                              ELSE "committed"]
        /\ points' = pts
        /\ loading' = FALSE
        /\ err' = err

\* fetchAll after its await, when every task fulfilled
ResumeFulfilled(c) ==
    LET cy  == cycles[c]
        pts == Curve(cy.dailyPL, cy.startingBalance)
    IN  /\ cycles' = [cycles EXCEPT ![c].pts = pts,
                                    ![c].pc = IF cy.cancelled THEN "discarded"
                                              ELSE "committed"]
        /\ points' = IF ~cy.cancelled THEN pts ELSE points
        /\ loading' = IF ~cy.cancelled THEN FALSE ELSE loading
        /\ err' = err

\* ResumeRejected with a catch that also clears the curve
ResumeRejectedClearsPoints(c) ==
    LET cy == cycles[c]
    IN  /\ cycles' = [cycles EXCEPT ![c].pc = IF cy.cancelled THEN "failedUnseen"
                                              ELSE "failed"]
        /\ err' = IF ~cy.cancelled THEN ErrText(cy.reason) ELSE err
        /\ loading' = IF ~cy.cancelled THEN FALSE ELSE loading
        /\ points' = IF ~cy.cancelled THEN <<>> ELSE points

\* ResumeRejected without the finally block
ResumeRejectedKeepsLoading(c) ==
    LET cy == cycles[c]
    IN  /\ cycles' = [cycles EXCEPT ![c].pc = IF cy.cancelled THEN "failedUnseen"
                                              ELSE "failed"]
        /\ err' = IF ~cy.cancelled THEN ErrText(cy.reason) ELSE err
        /\ loading' = loading
        /\ points' = points

\* fetchAll after its await, when a task rejected: catch and finally
ResumeRejected(c) ==
    LET cy == cycles[c]
    IN  /\ cycles' = [cycles EXCEPT ![c].pc = IF cy.cancelled THEN "failedUnseen"
                                              ELSE "failed"]
        /\ err' = IF ~cy.cancelled THEN ErrText(cy.reason) ELSE err
        /\ loading' = IF ~cy.cancelled THEN FALSE ELSE loading
        /\ points' = points

Resume(c) ==
    /\ c \in DOMAIN cycles
    /\ cycles[c].pc = "await"
    /\ cycles[c].join # "pending"
    /\ IF cycles[c].join = "fulfilled" THEN ResumeFulfilled(c)
       ELSE ResumeRejected(c)
    /\ UNCHANGED <<props, mounted, tsProbe, plProbe>>

Step(served) ==
    \/ Mount
    \/ \E p \in PropsSet : ParamChange(p)
    \/ Unmount
    \/ \E c \in 1..MaxCycles : \E i \in 1..Len(DefaultSymbols) :
          \E r \in served : Settle(c, i, r)
    \/ \E c \in 1..MaxCycles : Resume(c)

Next == Step(ErrorResponses)

NextCurve == Step(TradeResponses)

NextStatus == Step(StatusResponses)

Spec == Init /\ [][Next]_vars

\* the continuation of a settled Promise.all is a queued microtask: it runs
FairSpec ==
    Init /\ [][NextStatus]_vars /\ \A c \in 1..MaxCycles : WF_vars(Resume(c))

SpecCurve == Init /\ [][NextCurve]_vars

-----------------------------------------------------------------------------
(* What the claims speak of *)

\* a transport error or a non-success status
RequestFailed(r) == r.kind = "rejected" \/ (r.kind = "response" /\ ~r.ok)

RequestSucceeded(r) == r.kind = "response" /\ r.ok

ParsedJson(r) ==
    RequestSucceeded(r) /\ r.body.parse = "ok" /\ r.body.json # Null

\* the trades a response delivers
TradesOf(r) ==
    IF ParsedJson(r) /\ r.body.json.trades.t = "array"
    THEN r.body.json.trades.items ELSE <<>>

\* a successful response whose handling throws
Unprocessable(r) ==
    /\ RequestSucceeded(r)
    /\ \/ r.body.parse = "error"
       \/ r.body.json = Null
       \/ \E n \in DOMAIN TradesOf(r) : IsNullish(TradesOf(r)[n])

\* a successful response with valid JSON (not null) and no trades array
NoTradesArray(r) == ParsedJson(r) /\ r.body.json.trades.t # "array"

\* a successful response with a body that is not valid JSON, or without a
\* trades array
Malformed(r) ==
    RequestSucceeded(r) /\ (r.body.parse = "error" \/ NoTradesArray(r))

Counts(t) ==
    ~IsNullish(t) /\ NumberIsFinite(getCloseSec(t)) /\ NumberIsFinite(getPL(t))

\* the places <<symbol, index>> of the trades of a cycle that have a close
\* timestamp and a P&L
Counted(cy) ==
    UNION {{<<i, n>> : n \in {m \in DOMAIN TradesOf(cy.res[i]) :
                                Counts(TradesOf(cy.res[i])[m])}} :
           i \in DOMAIN cy.res}

TradeAt(cy, p) == TradesOf(cy.res[p[1]])[p[2]]

DayOfTrade(cy, p) == UtcDay(getCloseSec(TradeAt(cy, p)))

RECURSIVE SumPL(_, _)
SumPL(cy, S) ==
    IF S = {} THEN NumOf(0)
    ELSE LET p == CHOOSE q \in S : TRUE
         IN  NumAdd(getPL(TradeAt(cy, p)), SumPL(cy, S \ {p}))

DaysWithTrades(cy) == {DayOfTrade(cy, p) : p \in Counted(cy)}

DaySum(cy, D) == SumPL(cy, {p \in Counted(cy) : DayOfTrade(cy, p) = D})

RECURSIVE Ascending(_)
Ascending(S) ==
    IF S = {} THEN <<>>
    ELSE LET least == CHOOSE d \in S : \A o \in S : d <= o
         IN  <<least>> \o Ascending(S \ {least})

DateOfDay(D) == IsoDate(CivilFromDays(D))

Committed == {c \in DOMAIN cycles : cycles[c].pc = "committed"}

LastCommitted == CHOOSE c \in Committed : \A o \in Committed : o <= c

LastCommittedPts ==
    IF Committed = {} THEN <<>> ELSE cycles[LastCommitted].pts

\* the daily sums the tasks before index i leave, symbol k left out
RECURSIVE DailyWithout(_, _, _)
DailyWithout(cy, k, i) ==
    IF i = 0 THEN EmptyObject
    ELSE IF i = k THEN DailyWithout(cy, k, i - 1)
    ELSE RunTask(DailyWithout(cy, k, i - 1), cy.res[i]).daily

-----------------------------------------------------------------------------
(* C1 *)

\* C1: once a cycle's cleanup has run (cancelled = true), no step of that
\* cycle writes points, err or loading.
C1_SupersededCycleNeverWrites ==
    [][\A c \in DOMAIN cycles :
          (cycles[c].cancelled /\ cycles'[c] # cycles[c])
              => (points' = points /\ err' = err /\ loading' = loading)]_vars

\* a superseded cycle whose requests all succeeded finished after its
\* cleanup, and the state shown belongs to the later cycle
C1_Witness ==
    /\ Len(cycles) = 2
    /\ cycles[1].pc = "discarded" /\ cycles[1].pts # <<>>
    /\ cycles[2].pc = "await" /\ loading
    /\ points = <<>>

(* C2 *)

\* C2: a cycle that committed points had every request succeed and every
\* task fulfilled, and its points are the curve of its daily sums; a cycle
\* with a failed request never commits and never builds points.
C2_AllOrNothing ==
    \A c \in DOMAIN cycles :
        LET cy == cycles[c]
        IN  /\ cy.pc = "committed" =>
                  /\ \A i \in DOMAIN cy.res :
                        RequestSucceeded(cy.res[i]) /\ cy.task[i] = "fulfilled"
                  /\ cy.pts = Curve(cy.dailyPL, cy.startingBalance)
            /\ (\E i \in DOMAIN cy.res : RequestFailed(cy.res[i])) =>
                  /\ cy.pc \notin {"committed", "discarded"}
                  /\ cy.pts = <<>>
                  /\ (c = Len(cycles) => points = LastCommittedPts)

\* one request failed after the other delivered trades; the cycle ran its
\* catch and nothing is shown
C2_Witness ==
    \E c \in DOMAIN cycles :
        /\ cycles[c].pc = "failed"
        /\ Len(cycles[c].task) = 2
        /\ cycles[c].task[1] = "fulfilled" /\ DOMAIN cycles[c].dailyPL # {}
        /\ RequestFailed(cycles[c].res[2])
        /\ points = <<>>

(* C3 *)

\* C3: after a cycle failed, points are the points of the most recent cycle
\* that committed, and the empty sequence when none has.
C3_FailureKeepsPoints ==
    (\E c \in DOMAIN cycles : cycles[c].pc = "failed") => points = LastCommittedPts

\* the first cycle committed a curve, the second failed, the curve stays
C3_Witness ==
    /\ Len(cycles) = 2
    /\ cycles[1].pc = "committed" /\ cycles[1].pts # <<>>
    /\ cycles[2].pc = "failed" /\ err # ""
    /\ points = cycles[1].pts

(* C4 *)

\* the status of the latest cycle while it is not superseded: loading and
\* no message until fetchAll resumes, then not loading and a message
\* exactly when Failed holds of one of its responses
StatusOfLatest(Failed(_)) ==
    (Len(cycles) > 0 /\ ~cycles[Len(cycles)].cancelled) =>
        LET cy == cycles[Len(cycles)]
        IN  IF cy.pc = "await" THEN loading /\ err = ""
            ELSE /\ ~loading
                 /\ err # "" <=> \E i \in DOMAIN cy.res : Failed(cy.res[i])

\* the Promise.all of cycle c settled and its cleanup has not run
SettledAndLive(c) ==
    IF c \in DOMAIN cycles
    THEN cycles[c].join # "pending" /\ ~cycles[c].cancelled
    ELSE FALSE

Superseded(c) == IF c \in DOMAIN cycles THEN cycles[c].cancelled ELSE FALSE

ThrowsInTask(r) == RequestFailed(r) \/ Unprocessable(r)

\* C4 (as amended): a cycle that is not superseded and whose Promise.all
\* settled eventually has loading false, and from then on the message is
\* non-empty exactly when one of its tasks threw: a request failed, or the
\* handling of a successful response threw (body not JSON, JSON null, a null
\* trade).
C4_StatusAfterSettling ==
    /\ [](StatusOfLatest(ThrowsInTask))
    /\ \A c \in 1..MaxCycles : SettledAndLive(c) ~> (~loading \/ Superseded(c))

\* C4 (as stated): the message is non-empty exactly when a request of the
\* cycle failed (transport error or non-success status).
C4_AsStated == StatusOfLatest(RequestFailed)

\* the latest cycle failed on a server error: the message shows, loading is off
C4_Witness ==
    /\ Len(cycles) > 0 /\ ~cycles[Len(cycles)].cancelled
    /\ cycles[Len(cycles)].pc = "failed"
    /\ \E i \in DOMAIN cycles[Len(cycles)].res : cycles[Len(cycles)].res[i] = ServerError
    /\ ~loading /\ err = "500 Internal Server Error"

(* C5 *)

\* a response for which Tolerated holds counts as zero trades: its task
\* fulfils, and when the other tasks fulfil too the cycle's sums are those
\* of the other symbols, and the cycle, if not superseded, commits their
\* curve with no message
ZeroTrades(Tolerated(_)) ==
    \A c \in DOMAIN cycles : \A i \in DOMAIN cycles[c].res :
        LET cy == cycles[c]
        IN  Tolerated(cy.res[i]) =>
              /\ cy.task[i] = "fulfilled"
              /\ (\A j \in DOMAIN cy.task : cy.task[j] = "fulfilled") =>
                    /\ cy.join = "fulfilled"
                    /\ cy.dailyPL = DailyWithout(cy, i, Len(cy.res))
                    /\ (cy.pc # "await" /\ ~cy.cancelled) =>
                          /\ cy.pc = "committed"
                          /\ points = Curve(DailyWithout(cy, i, Len(cy.res)),
                                            cy.startingBalance)
                          /\ err = ""

\* C5 (as amended): a successful response whose body is valid JSON other
\* than null and whose trades field is absent or not an array is treated as
\* zero trades; a body that is not valid JSON fails the cycle.
C5_NoTradesArrayIsZeroTrades == ZeroTrades(NoTradesArray)

\* C5 (as stated): also a body that is not valid structured data is treated
\* as zero trades.
C5_AsStated == ZeroTrades(Malformed)

\* one symbol answered without a trades array, the other with trades, and
\* the cycle committed the other's curve
C5_Witness ==
    \E c \in DOMAIN cycles :
        /\ Len(cycles[c].res) = 2
        /\ NoTradesArray(cycles[c].res[1])
        /\ cycles[c].res[2] = TradesResponse(<<tradeSec, tradeStr, NoFields>>)
        /\ cycles[c].pc = "committed" /\ ~cycles[c].cancelled
        /\ Len(points) = 2 /\ err = "" /\ ~loading

(* C6 *)

\* C6: every encoding of an instant normalizes to its epoch seconds.
C6_SameSecondsForEveryEncoding ==
    tsProbe.enc # "none" => tsProbe.out = NumOf(tsProbe.inst)

(* C7 *)

\* C7: getPL gives the first of the four fields that is present, coerces to
\* a number and is finite, and the trade is left out (no finite P&L) only
\* when no field qualifies.
C7_FirstQualifyingField ==
    plProbe.done =>
        LET j == FirstQualifying(plProbe.trade)
        IN  IF j = 0 THEN ~NumberIsFinite(plProbe.out)
            ELSE plProbe.out = Coerced(plProbe.trade[PLFields[j]])

(* C8 *)

\* C8: when all requests of a cycle succeeded, the daily sums have one entry
\* per UTC day with counted trades, named by that day, holding the total
\* P&L of the trades of all symbols whose close timestamp lies in that day.
C8_DailySumsPerUtcDay ==
    \A c \in DOMAIN cycles :
        LET cy == cycles[c]
        IN  cy.join = "fulfilled" =>
              /\ Cardinality(DOMAIN cy.dailyPL) = Cardinality(DaysWithTrades(cy))
              /\ \A D \in DaysWithTrades(cy) :
                    /\ DateOfDay(D) \in DOMAIN cy.dailyPL
                    /\ cy.dailyPL[DateOfDay(D)] = DaySum(cy, D)

(* C9 *)

\* C9: the points a cycle commits are one point per UTC day with trades, in
\* chronological order, each with startingBalance plus the sums of the days
\* up to it.
C9_PrefixSumInDayOrder ==
    \A c \in DOMAIN cycles :
        LET cy   == cycles[c]
            days == Ascending(DaysWithTrades(cy))
        IN  cy.pc = "committed" =>
              /\ Len(cy.pts) = Len(days)
              /\ \A i \in 1..Len(days) :
                    /\ cy.pts[i].date = DateOfDay(days[i])
                    /\ cy.pts[i].equity =
                          NumAdd(cy.startingBalance,
                                 SumPL(cy, {p \in Counted(cy) :
                                              \E j \in 1..i : DayOfTrade(cy, p) = days[j]}))

(* C10 *)

\* netPnl of the render: finalEq - startingBalance
NetPnl == NumSub(points[Len(points)].equity, props.startingBalance)

\* C10: whenever points are displayed, the net PnL shown is the total P&L
\* of the trades aggregated into them.
C10_NetPnlIsTotalPL ==
    (mounted /\ points # <<>>) =>
        NetPnl = SumPL(cycles[LastCommitted], Counted(cycles[LastCommitted]))

====
